---- MODULE Spec2Model ----
(***************************************************************************)
(* Model of src/placement_solver.py: PlacementSolver places a catalog of   *)
(* rectangular items in a room, one item at a time, greedily.              *)
(*                                                                         *)
(* Arithmetic.  The program computes in floating point; the model computes *)
(* in integers, on inputs for which every value the program computes is an *)
(* integer: axis-parallel rooms and doors with integer vertices, wall      *)
(* lengths that are multiples of 20 (so that the sampling step L/20 is     *)
(* whole) and even item dimensions (so that length/2 and width/2 are       *)
(* whole).  On such inputs (-dy / L) * offset is +-offset or 0 exactly.    *)
(*                                                                         *)
(* Geometry.  shapely is a library, modelled by what its predicates mean   *)
(* on the shapes that occur: every polygon the program builds here is an   *)
(* axis-parallel rectangle, given as the program gives it, by its list of  *)
(* four vertices.  intersects() is true of shapes that only touch;         *)
(* contains() allows the inner shape to touch the outer boundary.          *)
(***************************************************************************)
EXTENDS Integers, Sequences, FiniteSets, TLC

VARIABLES
    boundary,              \* input: the room's vertices, in order
    door,                  \* input: the door's points (possibly none)
    is_open_inward,        \* input: the swing flag
    items_dict,            \* input: the catalog, <<name, <<length, width>>>> in insertion order
    boundary_polygon,      \* self.boundary_polygon
    pc,                    \* "new", "solving", "raised" (the constructor raised), "done"
    items,                 \* self.items: the sorted list of Item
    door_restricted_zone,  \* self.door_restricted_zone
    walls,                 \* self.walls
    placements,            \* self.placements
    placed_polygons,       \* self.placed_polygons
    fridge_zones,          \* self.fridge_zones
    attempted,             \* the names solve() has announced (the print opening each iteration)
    result                 \* what solve() returned

vars == <<boundary, door, is_open_inward, items_dict, boundary_polygon, pc, items,
          door_restricted_zone, walls, placements, placed_polygons,
          fridge_zones, attempted, result>>

inputs == <<boundary, door, is_open_inward, items_dict>>

\* Largest catalog the model draws.
MaxItems == 3

None == [kind |-> "none"]

---------------------------------------------------------------------------
\* Small helpers.

Min(S) == CHOOSE x \in S : \A y \in S : x <= y
Max(S) == CHOOSE x \in S : \A y \in S : x >= y
Abs(x) == IF x < 0 THEN -x ELSE x
Range(s) == {s[i] : i \in DOMAIN s}

RECURSIVE Flatten(_)
Flatten(ss) == IF ss = <<>> THEN <<>> ELSE Head(ss) \o Flatten(Tail(ss))

---------------------------------------------------------------------------
\* Item and its category, from the name's prefix.

StartsWith(name, prefix) ==
    /\ Len(name) >= Len(prefix)
    /\ SubSeq(name, 1, Len(prefix)) = prefix

PrefixFridge    == <<"f", "r", "i", "d", "g", "e">>
PrefixIceMaker  == <<"i", "c", "e", "M", "a", "k", "e", "r">>
PrefixOverShelf == <<"o", "v", "e", "r", "S", "h", "e", "l", "f">>
PrefixShelf     == <<"s", "h", "e", "l", "f">>

ItemType(name) ==
    IF StartsWith(name, PrefixFridge) THEN "fridge"
    ELSE IF StartsWith(name, PrefixIceMaker) THEN "iceMaker"
    ELSE IF StartsWith(name, PrefixOverShelf) THEN "overShelf"
    ELSE IF StartsWith(name, PrefixShelf) THEN "shelf"
    ELSE "unknown"

Item(name, length, width, item_type) ==
    [name |-> name, length |-> length, width |-> width, item_type |-> item_type]

get_area(item) == item.length * item.width

priority(item_type) ==
    CASE item_type = "fridge"    -> 0
      [] item_type = "iceMaker"  -> 1
      [] item_type = "shelf"     -> 2
      [] item_type = "overShelf" -> 3
      [] OTHER                   -> 4

\* The sort key (priority, -area), and tuple comparison.
SortKeyWrongSign(item) == <<priority(item.item_type), get_area(item)>>
SortKey(item) == <<priority(item.item_type), -get_area(item)>>

KeyLess(a, b) == a[1] < b[1] \/ (a[1] = b[1] /\ a[2] < b[2])

\* list.sort is stable: an item goes after every item whose key is not greater.
InsertSorted(sorted, x) ==
    LET after == {i \in 1..Len(sorted) : ~KeyLess(SortKey(x), SortKey(sorted[i]))}
        n == IF after = {} THEN 0 ELSE Max(after)
    IN SubSeq(sorted, 1, n) \o <<x>> \o SubSeq(sorted, n + 1, Len(sorted))

RECURSIVE SortItems(_, _)
SortItems(sorted, rest) ==
    IF rest = <<>> THEN sorted
    ELSE SortItems(InsertSorted(sorted, Head(rest)), Tail(rest))

_parse_items(d) ==
    SortItems(<<>>, [i \in 1..Len(d) |->
                        Item(d[i][1], d[i][2][1], d[i][2][2], ItemType(d[i][1]))])

---------------------------------------------------------------------------
\* Polygons: axis-parallel rectangles as vertex lists.

\* geometry.bounds: (minx, miny, maxx, maxy) of a vertex list.
Bounds(points) ==
    <<Min({points[i][1] : i \in DOMAIN points}), Min({points[i][2] : i \in DOMAIN points}),
      Max({points[i][1] : i \in DOMAIN points}), Max({points[i][2] : i \in DOMAIN points})>>

Polygon(points) == [kind |-> "polygon", points |-> points, bounds |-> Bounds(points)]

MinX(g) == g.bounds[1]
MinY(g) == g.bounds[2]
MaxX(g) == g.bounds[3]
MaxY(g) == g.bounds[4]

\* Distance between the closed intervals [lo1, hi1] and [lo2, hi2].
Gap(lo1, hi1, lo2, hi2) ==
    IF hi1 < lo2 THEN lo2 - hi1
    ELSE IF hi2 < lo1 THEN lo1 - hi2
    ELSE 0

GapX(a, b) == Gap(MinX(a), MaxX(a), MinX(b), MaxX(b))
GapY(a, b) == Gap(MinY(a), MaxY(a), MinY(b), MaxY(b))

\* a.contains(b), a and b axis-parallel rectangles, b of positive area.
Contains(a, b) ==
    /\ MinX(a) <= MinX(b) /\ MaxX(b) <= MaxX(a)
    /\ MinY(a) <= MinY(b) /\ MaxY(b) <= MaxY(a)

\* polygon.contains(Point(x, y)): a point on the boundary is not contained.
ContainsPoint(a, x, y) ==
    /\ MinX(a) < x /\ x < MaxX(a)
    /\ MinY(a) < y /\ y < MaxY(a)

\* a.distance(b) of two axis-parallel shapes (rectangles or segments): the gap
\* on one axis when the shapes overlap on the other.  A rectangle inside a
\* rectangular room overlaps every wall on one axis, so this is the only case
\* that occurs for a scored candidate; when the shapes are apart on both axes
\* the distance is the hypotenuse of the two gaps, here rounded down to a whole
\* number.
Distance(a, b) ==
    LET gx == GapX(a, b)
        gy == GapY(a, b)
    IN IF gx = 0 THEN gy
       ELSE IF gy = 0 THEN gx
       ELSE CHOOSE d \in 0..(gx + gy) :
                d * d <= gx * gx + gy * gy /\ gx * gx + gy * gy < (d + 1) * (d + 1)

\* a.intersects(b): b a rectangle, or a segment buffered by b.distance (the
\* points within that distance of the segment; shapely approximates the round
\* caps by polygons).
Intersects(a, b) ==
    IF b.kind = "buffer"
    THEN GapX(a, b) * GapX(a, b) + GapY(a, b) * GapY(a, b) <= b.distance * b.distance
    ELSE GapX(a, b) = 0 /\ GapY(a, b) = 0

LineString(p1, p2) ==
    [kind |-> "line", points |-> <<p1, p2>>, bounds |-> Bounds(<<p1, p2>>)]

\* line.length of an axis-parallel segment.
Length(line) ==
    Abs(line.points[2][1] - line.points[1][1]) + Abs(line.points[2][2] - line.points[1][2])

Buffer(line, distance) ==
    [kind |-> "buffer", points |-> line.points, bounds |-> line.bounds,
     distance |-> distance]

---------------------------------------------------------------------------
\* Construction.

buffer_distance == 100

_calculate_door_zone_raises ==
    /\ Len(door) >= 2
    /\ is_open_inward
    /\ door[1] = door[2]

_calculate_door_zone ==
    IF Len(door) < 2 THEN None
    ELSE LET door_p1 == door[1]
             door_p2 == door[2]
             dx == door_p2[1] - door_p1[1]
             dy == door_p2[2] - door_p1[2]
         IN IF is_open_inward
            THEN \* perp * door_width = (-dy, dx)
                 Polygon(<<door_p1,
                           door_p2,
                           <<door_p2[1] - dy, door_p2[2] + dx>>,
                           <<door_p1[1] - dy, door_p1[2] + dx>> >>)
            ELSE Buffer(LineString(door_p1, door_p2), buffer_distance)

_extract_walls ==
    LET n == Len(boundary)
    IN [i \in 1..n |-> LineString(boundary[i], boundary[(i % n) + 1])]

---------------------------------------------------------------------------
\* Rectangles, validity, candidates, score.

_create_rectangle(center, length, width, rotation) ==
    LET cx == center[1]
        cy == center[2]
        half_l == length \div 2
        half_w == width \div 2
    IN IF rotation = 0
       THEN Polygon(<< <<cx - half_l, cy - half_w>>, <<cx + half_l, cy - half_w>>,
                       <<cx + half_l, cy + half_w>>, <<cx - half_l, cy + half_w>> >>)
       ELSE Polygon(<< <<cx - half_w, cy - half_l>>, <<cx + half_w, cy - half_l>>,
                       <<cx + half_w, cy + half_l>>, <<cx - half_w, cy + half_l>> >>)

\* The validity check with one of its checks left out, or narrowed.
IsValidNoContainment(room, door_zone, polys, zones, rect) ==
    /\ ~(door_zone.kind # "none" /\ Intersects(rect, door_zone))
    /\ \A i \in DOMAIN polys : ~Intersects(rect, polys[i])
    /\ \A i \in DOMAIN zones : ~Intersects(rect, zones[i])

IsValidNoDoor(room, door_zone, polys, zones, rect) ==
    /\ Contains(room, rect)
    /\ \A i \in DOMAIN polys : ~Intersects(rect, polys[i])
    /\ \A i \in DOMAIN zones : ~Intersects(rect, zones[i])

IsValidNoPlaced(room, door_zone, polys, zones, rect) ==
    /\ Contains(room, rect)
    /\ ~(door_zone.kind # "none" /\ Intersects(rect, door_zone))
    /\ \A i \in DOMAIN zones : ~Intersects(rect, zones[i])

IsValidNoFridgeZones(room, door_zone, polys, zones, rect) ==
    /\ Contains(room, rect)
    /\ ~(door_zone.kind # "none" /\ Intersects(rect, door_zone))
    /\ \A i \in DOMAIN polys : ~Intersects(rect, polys[i])

IsValidLastZoneOnly(room, door_zone, polys, zones, rect) ==
    /\ Contains(room, rect)
    /\ ~(door_zone.kind # "none" /\ Intersects(rect, door_zone))
    /\ \A i \in DOMAIN polys : ~Intersects(rect, polys[i])
    /\ zones # <<>> => ~Intersects(rect, zones[Len(zones)])

\* The four checks of _is_valid_placement against a door zone, a list of placed
\* rectangles and a list of fridge zones.
IsValidAgainst(room, door_zone, polys, zones, rect) ==
    /\ Contains(room, rect)
    /\ ~(door_zone.kind # "none" /\ Intersects(rect, door_zone))
    /\ \A i \in DOMAIN polys : ~Intersects(rect, polys[i])
    /\ \A i \in DOMAIN zones : ~Intersects(rect, zones[i])

_is_valid_placement(center, item, rotation) ==
    IsValidAgainst(boundary_polygon, door_restricted_zone, placed_polygons, fridge_zones,
                   _create_rectangle(center, item.length, item.width, rotation))

\* np.arange(start, stop, step) for whole numbers, as a sequence.
Arange(start, stop, step) ==
    LET n == IF stop <= start THEN 0 ELSE (stop - start + step - 1) \div step
    IN [k \in 1..n |-> start + (k - 1) * step]

SampleStep(wall_length) == Max({Min({100, wall_length \div 20}), 1})

\* One sample of a wall at one rotation: the candidate, or "skip".
WallCandidate(wall, item, dist, rotation) ==
    LET p1 == wall.points[1]
        p2 == wall.points[2]
        wall_length == Length(wall)
        dx == p2[1] - p1[1]
        dy == p2[2] - p1[2]
        wall_x == p1[1] + (dist * dx) \div wall_length
        wall_y == p1[2] + (dist * dy) \div wall_length
        offset == IF rotation = 0 THEN item.width \div 2 ELSE item.length \div 2
        length_along_wall == IF rotation = 0 THEN item.length ELSE item.width
    IN IF \/ dist + length_along_wall \div 2 > wall_length
          \/ dist - length_along_wall \div 2 < 0
       THEN "skip"
       ELSE << <<wall_x + (-dy * offset) \div wall_length,
                 wall_y + (dx * offset) \div wall_length>>, rotation>>

_generate_wall_positions(wall, item) ==
    LET dists == Arange(0, Length(wall), SampleStep(Length(wall)))
        all == [i \in 1..(2 * Len(dists)) |->
                   WallCandidate(wall, item, dists[(i + 1) \div 2],
                                 IF i % 2 = 1 THEN 0 ELSE 90)]
    IN SelectSeq(all, LAMBDA c : c # "skip")

GridStep == 200

_generate_interior_positions(item) ==
    LET xs == Arange(MinX(boundary_polygon), MaxX(boundary_polygon), GridStep)
        ys == Arange(MinY(boundary_polygon), MaxY(boundary_polygon), GridStep)
        n == Len(xs) * Len(ys) * 2
        \* x outermost, then y, then the rotation
        all == [i \in 1..n |->
                   << <<xs[((i - 1) \div (2 * Len(ys))) + 1],
                        ys[(((i - 1) \div 2) % Len(ys)) + 1]>>,
                      IF i % 2 = 1 THEN 0 ELSE 90>>]
    IN SelectSeq(all, LAMBDA c : ContainsPoint(boundary_polygon, c[1][1], c[1][2]))

Candidates(item) ==
    Flatten([w \in 1..Len(walls) |-> _generate_wall_positions(walls[w], item)])
        \o _generate_interior_positions(item)

TouchTolerance == 10
TouchWeight == 10000

\* The walls within the tolerance, and the distance to the nearest wall.
TouchingWalls(distances) ==
    Cardinality({w \in DOMAIN distances : distances[w] < TouchTolerance})

MinWallDistance(distances) == Min(Range(distances))

\* The score from the distances of the rectangle to the walls.
ScoreOf(distances) ==
    TouchingWalls(distances) * TouchWeight - MinWallDistance(distances)

WallDistances(rect) ==
    SelectSeq([w \in 1..Len(walls) |-> Distance(rect, walls[w])], LAMBDA d : TRUE)

_calculate_position_score(center, item, rotation) ==
    ScoreOf(WallDistances(_create_rectangle(center, item.length, item.width, rotation)))

_calculate_fridge_door_zone(placement) ==
    IF placement.item.item_type # "fridge" THEN None
    ELSE LET cx == placement.center[1]
             cy == placement.center[2]
             half_l == placement.item.length \div 2
             half_w == placement.item.width \div 2
             door_clearance == placement.item.width
         IN IF placement.rotation = 0
            THEN Polygon(<< <<cx + half_l, cy - half_w>>,
                            <<cx + half_l + door_clearance, cy - half_w>>,
                            <<cx + half_l + door_clearance, cy + half_w>>,
                            <<cx + half_l, cy + half_w>> >>)
            ELSE Polygon(<< <<cx - half_l, cy + half_w>>,
                            <<cx + half_l, cy + half_w>>,
                            <<cx + half_l, cy + half_w + door_clearance>>,
                            <<cx - half_l, cy + half_w + door_clearance>> >>)

---------------------------------------------------------------------------
\* solve(): one loop iteration per step.

Placement(item, center, rotation) == [item |-> item, center |-> center, rotation |-> rotation]

to_dict(p) == [item |-> p.item.name, center |-> p.center, rotation |-> p.rotation]

\* The loop over the candidates: the valid ones, in candidate order, each with
\* its score.
FilterValid(item, candidates) ==
    SelectSeq([i \in 1..Len(candidates) |->
                  IF _is_valid_placement(candidates[i][1], item, candidates[i][2])
                  THEN <<_calculate_position_score(candidates[i][1], item,
                                                   candidates[i][2]),
                         candidates[i][1], candidates[i][2]>>
                  ELSE "skip"],
              LAMBDA v : v # "skip")

ValidPositions(item) == FilterValid(item, Candidates(item))

\* The sort without reverse=True: the first position of minimal score.
BestPositionAscending(valid_positions) ==
    LET best_score == Min({valid_positions[i][1] : i \in 1..Len(valid_positions)})
    IN valid_positions[Min({i \in 1..Len(valid_positions) :
                               valid_positions[i][1] = best_score})]

\* valid_positions.sort(key=score, reverse=True)[0]: the sort is stable, so the
\* first position of maximal score.
BestPosition(valid_positions) ==
    LET best_score == Max({valid_positions[i][1] : i \in 1..Len(valid_positions)})
    IN valid_positions[Min({i \in 1..Len(valid_positions) :
                               valid_positions[i][1] = best_score})]

\* The infeasible result with the partial placements dropped.
InfeasibleResultDiscarding(item) ==
    [feasible |-> FALSE,
     placements |-> <<>>,
     message |-> <<"cannot place item: ", item.name>>]

\* The message is the program's fixed text (here in English) and the item's name.
InfeasibleResult(item) ==
    [feasible |-> FALSE,
     placements |-> [i \in 1..Len(placements) |-> to_dict(placements[i])],
     message |-> <<"cannot place item: ", item.name>>]

FeasibleResult ==
    [feasible |-> TRUE,
     placements |-> [i \in 1..Len(placements) |-> to_dict(placements[i])]]

\* The item of the current iteration: every earlier iteration committed one.
CurrentIndex == Len(placements) + 1

Construct ==
    /\ pc = "new"
    /\ ~_calculate_door_zone_raises
    /\ boundary_polygon' = Polygon(boundary)
    /\ items' = _parse_items(items_dict)
    /\ door_restricted_zone' = _calculate_door_zone
    /\ walls' = _extract_walls
    /\ placements' = <<>>
    /\ placed_polygons' = <<>>
    /\ fridge_zones' = <<>>
    /\ pc' = "solving"
    /\ UNCHANGED <<inputs, attempted, result>>

\* The division by door_width = 0 raises, and no solver is constructed.
ConstructRaises ==
    /\ pc = "new"
    /\ _calculate_door_zone_raises
    /\ pc' = "raised"
    /\ result' = "ZeroDivisionError"
    /\ UNCHANGED <<inputs, boundary_polygon, items, door_restricted_zone, walls,
                   placements, placed_polygons, fridge_zones, attempted>>

\* The commit of an item at its best position.
Commit(item, best) ==
    /\ placements' = Append(placements, Placement(item, best[2], best[3]))
    /\ placed_polygons' =
           Append(placed_polygons,
                  _create_rectangle(best[2], item.length, item.width, best[3]))
    /\ fridge_zones' =
           IF item.item_type = "fridge"
           THEN Append(fridge_zones,
                       _calculate_fridge_door_zone(Placement(item, best[2], best[3])))
           ELSE fridge_zones
    /\ UNCHANGED <<pc, result>>

\* The body of the loop, the item's valid positions known.
IterateWith(item, valid_positions) ==
    /\ attempted' = Append(attempted, item.name)
    /\ IF valid_positions = <<>>
       THEN /\ result' = InfeasibleResult(item)
            /\ pc' = "done"
            /\ UNCHANGED <<placements, placed_polygons, fridge_zones>>
       ELSE Commit(item, BestPosition(valid_positions))

\* One iteration of the loop over self.items: the item is committed at its
\* best valid position, or solve() returns infeasible.
Iterate ==
    /\ pc = "solving"
    /\ CurrentIndex <= Len(items)
    /\ IterateWith(items[CurrentIndex], ValidPositions(items[CurrentIndex]))
    /\ UNCHANGED <<inputs, boundary_polygon, items, door_restricted_zone, walls>>

Feasible ==
    /\ pc = "solving"
    /\ CurrentIndex > Len(items)
    /\ result' = FeasibleResult
    /\ pc' = "done"
    /\ UNCHANGED <<inputs, boundary_polygon, items, door_restricted_zone, walls,
                   placements, placed_polygons, fridge_zones, attempted>>

---------------------------------------------------------------------------
\* The scenarios the model draws.

Name(category, suffix) == category \o <<suffix>>

\* name -> [length, width]
Catalog ==
    { <<Name(PrefixFridge, "1"), <<200, 100>> >>,
      <<Name(PrefixFridge, "2"), <<100, 100>> >>,
      <<Name(PrefixIceMaker, "1"), <<100, 100>> >>,
      <<Name(PrefixShelf, "1"), <<200, 100>> >>,
      <<Name(PrefixOverShelf, "1"), <<100, 110>> >>,
      <<<<"t", "a", "b", "l", "e">>, <<500, 500>> >> }

\* Mappings of at most MaxItems entries, in every insertion order.
RECURSIVE Orderings(_)
Orderings(n) ==
    IF n = 0 THEN {<<>>}
    ELSE LET shorter == Orderings(n - 1)
         IN shorter \cup
            {Append(s, e) : s \in {t \in shorter : Len(t) = n - 1},
                            e \in Catalog} 

ItemDicts ==
    {d \in Orderings(MaxItems) :
        \A i, j \in 1..Len(d) : i # j => d[i][1] # d[j][1]}

Rooms ==
    { << <<0, 0>>, <<400, 0>>, <<400, 400>>, <<0, 400>> >>,     \* counter-clockwise
      << <<0, 0>>, <<0, 400>>, <<600, 400>>, <<600, 0>> >> }    \* clockwise

Doors ==
    { <<>>,
      << <<100, 0>> >>,
      << <<100, 0>>, <<100, 0>> >>,
      << <<100, 0>>, <<200, 0>> >>,
      << <<200, 0>>, <<100, 0>> >>,
      << <<0, 300>>, <<0, 200>> >> }

Init ==
    /\ boundary \in Rooms
    /\ door \in Doors
    /\ is_open_inward \in BOOLEAN
    /\ items_dict \in ItemDicts
    /\ pc = "new"
    /\ boundary_polygon = None
    /\ items = <<>>
    /\ door_restricted_zone = None
    /\ walls = <<>>
    /\ placements = <<>>
    /\ placed_polygons = <<>>
    /\ fridge_zones = <<>>
    /\ attempted = <<>>
    /\ result = None

Next == Construct \/ ConstructRaises \/ Iterate \/ Feasible

Spec == Init /\ [][Next]_vars

---------------------------------------------------------------------------
\* Properties.

Room == Polygon(boundary)

RectOf(item, c) == _create_rectangle(c[1], item.length, item.width, c[2])

IsFridge(p) == p.item.item_type = "fridge"

\* The fridges among the first n placements.
FridgesBefore(n) == {j \in 1..n : j \in DOMAIN placements /\ IsFridge(placements[j])}

\* C1: in every state reachable during solve, every rectangle of the
\* committed-rectangle list lies entirely within the room polygon.
C1_Containment ==
    \A k \in DOMAIN placed_polygons : Contains(Room, placed_polygons[k])

\* Two items are committed, and the first had a candidate outside the room.
C1_Witness ==
    /\ Len(placed_polygons) >= 2
    /\ \E c \in Range(Candidates(items[1])) : ~Contains(Room, RectOf(items[1], c))

\* C2: in every state reachable during solve, no two distinct committed
\* rectangles intersect, where touching counts as intersecting.
C2_NonOverlap ==
    \A j, k \in DOMAIN placed_polygons :
        j # k => ~Intersects(placed_polygons[j], placed_polygons[k])

\* Two items are committed, and the second had a candidate inside the room and
\* clear of the door zone that only touches the first item's rectangle.
C2_Witness ==
    /\ Len(placed_polygons) >= 2
    /\ \E c \in Range(Candidates(items[2])) :
          /\ IsValidAgainst(Room, door_restricted_zone, <<>>, <<>>, RectOf(items[2], c))
          /\ Intersects(RectOf(items[2], c), placed_polygons[1])
          /\ MaxX(RectOf(items[2], c)) = MinX(placed_polygons[1])

\* C3: whenever a door zone exists (a door of at least 2 points, swinging
\* inward or outward), no committed rectangle intersects the door zone.
C3_DoorClearance ==
    pc \in {"solving", "done"} /\ Len(door) >= 2 =>
        /\ door_restricted_zone.kind # "none"
        /\ \A k \in DOMAIN placed_polygons :
              ~Intersects(placed_polygons[k], door_restricted_zone)

\* A door zone exists, an item is committed, and one of its candidates was
\* inside the empty room and intersected the door zone.
C3_Witness ==
    /\ Len(placed_polygons) >= 1
    /\ door_restricted_zone.kind # "none"
    /\ \E c \in Range(Candidates(items[1])) :
          /\ Contains(Room, RectOf(items[1], c))
          /\ Intersects(RectOf(items[1], c), door_restricted_zone)

\* C4: a fridge's own clearance zone is created only when the fridge is
\* committed, so it is not among the zones its candidates are checked against;
\* and the rectangle of every item committed after a fridge does not intersect
\* that fridge's zone.
C4_CommitStep ==
    Len(placements') = Len(placements) + 1 =>
        LET n == Len(placements)
        IN /\ Len(fridge_zones) = Cardinality(FridgesBefore(n))
           /\ \A j \in FridgesBefore(n) :
                 ~Intersects(placed_polygons'[n + 1],
                             _calculate_fridge_door_zone(placements[j]))
           /\ fridge_zones' =
                 IF IsFridge(placements'[n + 1])
                 THEN Append(fridge_zones, _calculate_fridge_door_zone(placements'[n + 1]))
                 ELSE fridge_zones

C4_FridgeCausality == [][C4_CommitStep]_vars

\* A fridge is committed although its rectangle touches its own zone, and the
\* next item had a candidate that passed every other check and was rejected
\* for the fridge's zone alone.
C4_Witness ==
    /\ Len(placements) >= 2
    /\ IsFridge(placements[1])
    /\ Intersects(placed_polygons[1], fridge_zones[1])
    /\ \E c \in Range(Candidates(items[2])) :
          /\ IsValidAgainst(Room, door_restricted_zone, <<placed_polygons[1]>>, <<>>,
                            RectOf(items[2], c))
          /\ Intersects(RectOf(items[2], c), fridge_zones[1])

\* The placement a fridge zone was computed from: the z-th committed fridge.
SourceOf(z) ==
    CHOOSE j \in DOMAIN placements :
        IsFridge(placements[j]) /\ Cardinality(FridgesBefore(j)) = z

\* C5, as claimed: every committed rectangle is clear of every fridge zone in
\* the list, whichever of the two was created first, the zone's own fridge
\* included.
C5_AsClaimed ==
    \A k \in DOMAIN placed_polygons : \A z \in DOMAIN fridge_zones :
        ~Intersects(placed_polygons[k], fridge_zones[z])

\* C5, amended: every committed rectangle is clear of every fridge zone that
\* was in the list when the rectangle was committed, that is, of the zone of
\* every fridge committed before it.
C5_ZonesOfEarlierFridges ==
    \A k \in DOMAIN placed_polygons : \A z \in DOMAIN fridge_zones :
        SourceOf(z) < k => ~Intersects(placed_polygons[k], fridge_zones[z])

\* Two fridges and a third item are committed; the third had a candidate that
\* was clear of the second fridge's zone and not of the first's.
C5_Witness ==
    /\ Len(placements) = 3
    /\ Len(fridge_zones) = 2
    /\ \E c \in Range(Candidates(items[3])) :
          /\ IsValidAgainst(Room, door_restricted_zone, placed_polygons,
                            <<fridge_zones[2]>>, RectOf(items[3], c))
          /\ Intersects(RectOf(items[3], c), fridge_zones[1])

\* The categories in priority order: fridge 0 < iceMaker 1 < shelf 2 <
\* overShelf 3 < unknown 4.
CategoryOrder == <<"fridge", "iceMaker", "shelf", "overShelf", "unknown">>

CategoryIndex(item) ==
    (CHOOSE i \in DOMAIN CategoryOrder : CategoryOrder[i] = item.item_type) - 1

\* a is placed no later than b: lower category index, or the same and no
\* smaller an area.
OrderedBefore(a, b) ==
    \/ CategoryIndex(a) < CategoryIndex(b)
    \/ CategoryIndex(a) = CategoryIndex(b) /\ a.length * a.width >= b.length * b.width

C6_State ==
    pc \in {"solving", "done"} =>
        \* the sorted list holds the catalog's entries, each once
        /\ Len(items) = Len(items_dict)
        /\ \A i \in DOMAIN items_dict : \E k \in DOMAIN items :
              /\ items[k].name = items_dict[i][1]
              /\ <<items[k].length, items[k].width>> = items_dict[i][2]
        \* in ascending (categoryPriority, -area)
        /\ \A i, j \in DOMAIN items : i < j => OrderedBefore(items[i], items[j])
        \* and the items are attempted and committed in that order
        /\ Len(attempted) <= Len(items)
        /\ \A k \in DOMAIN attempted : attempted[k] = items[k].name
        /\ \A k \in DOMAIN placements : placements[k].item = items[k]

\* C6: for every insertion order of the catalog, the items are attempted and
\* committed in ascending order of (categoryPriority, -area), with fridge 0 <
\* iceMaker 1 < shelf 2 < overShelf 3 < unknown 4; the order is fixed by the
\* constructor and never changes during solve.
C6_PriorityOrder ==
    /\ []C6_State
    /\ [][pc # "new" => items' = items]_vars

\* Three items are committed that the catalog gave in another order: a lower
\* category after a higher one, and a larger item after a smaller one of its
\* category.
C6_Witness ==
    /\ pc = "done"
    /\ Len(placements) = 3
    /\ ItemType(items_dict[1][1]) = "iceMaker"
    /\ ItemType(items_dict[2][1]) = "fridge"
    /\ ItemType(items_dict[3][1]) = "fridge"
    /\ items_dict[2][2][1] * items_dict[2][2][2] < items_dict[3][2][1] * items_dict[3][2][2]

\* C7: when solve reaches the first item, in sorted order, that has no valid
\* candidate, it returns at once: feasible is false, the message names that
\* item, placements is the list of the items committed before it, in commit
\* order, and no later item is attempted or committed.
C7_FirstFailureStops ==
    pc = "done" /\ ~result.feasible =>
        LET k == Len(placements) + 1
        IN /\ k <= Len(items)
           /\ ValidPositions(items[k]) = <<>>
           /\ result.message = <<"cannot place item: ", items[k].name>>
           /\ Len(result.placements) = k - 1
           /\ \A j \in 1..(k - 1) :
                 /\ placements[j].item = items[j]
                 /\ result.placements[j] =
                       [item |-> items[j].name, center |-> placements[j].center,
                        rotation |-> placements[j].rotation]
           /\ attempted = [j \in 1..k |-> items[j].name]
           /\ Len(placed_polygons) = k - 1
           /\ ~ENABLED Next

\* The second of three items fails: one placement is kept, and the third item
\* is never attempted.
C7_Witness ==
    /\ pc = "done"
    /\ ~result.feasible
    /\ Len(items) = 3
    /\ Len(result.placements) = 1
    /\ Len(attempted) = 2

\* C8, as claimed: for a door that is absent, has fewer than 2 points, or whose
\* first two points coincide, the door-zone computation returns no zone and
\* raises no error, for either swing, and no door constraint applies.
C8_DegenerateDoorNoZone ==
    pc # "new" /\ (Len(door) < 2 \/ door[1] = door[2]) =>
        /\ pc # "raised"
        /\ door_restricted_zone.kind = "none"

\* The touching-wall count and the nearest-wall distance of a pose.
TouchingOf(item, center, rotation) ==
    TouchingWalls(WallDistances(_create_rectangle(center, item.length, item.width, rotation)))

NearestOf(item, center, rotation) ==
    MinWallDistance(WallDistances(_create_rectangle(center, item.length, item.width,
                                                    rotation)))

\* A rectangle at the given wall distances does not beat a pose that touches
\* `touching` walls with its nearest wall at `nearest`: it touches fewer
\* walls, or as many and is no nearer to a wall.
NotBetter(distances, touching, nearest) ==
    \/ TouchingWalls(distances) < touching
    \/ /\ TouchingWalls(distances) = touching
       /\ MinWallDistance(distances) >= nearest

\* The valid candidates of an item against given lists of placed rectangles
\* and fridge zones.
ValidPoses(item, candidates, polys, zones) ==
    SelectSeq(candidates,
              LAMBDA c : IsValidAgainst(boundary_polygon, door_restricted_zone, polys,
                                        zones, RectOf(item, c)))

\* The pool of the n-th committed item as it was when the item was committed:
\* checked against the n - 1 rectangles and the fridge zones before it.
PoolBefore(n) ==
    ValidPoses(items[n], Candidates(items[n]),
               SubSeq(placed_polygons, 1, n - 1),
               SubSeq(fridge_zones, 1, Cardinality(FridgesBefore(n - 1))))

\* None of the poses beats one that touches `touching` walls with its nearest
\* wall at `nearest`.
NoneBetter(item, poses, touching, nearest) ==
    \A i \in DOMAIN poses :
        NotBetter(WallDistances(RectOf(item, poses[i])), touching, nearest)

\* The pose is one of the pool, and none of the pool beats it.
BestOfPool(item, poses, center, rotation) ==
    /\ <<center, rotation>> \in Range(poses)
    /\ NoneBetter(item, poses, TouchingOf(item, center, rotation),
                  NearestOf(item, center, rotation))

\* C9: the pose committed for an item is lexicographically best among the
\* valid candidates of the item's pool (wall and interior candidates, checked
\* against the state at that moment): no valid candidate has more walls within
\* the tolerance, and among those with as many none has a smaller minimum wall
\* distance.
C9_LexicographicBest ==
    \A n \in DOMAIN placements :
        /\ placements[n].item = items[n]
        /\ BestOfPool(items[n], PoolBefore(n), placements[n].center,
                      placements[n].rotation)

\* The first item is committed, and its pool held a valid candidate touching
\* fewer walls and another touching as many from further away.
C9_Witness ==
    /\ Len(placements) = 1
    /\ LET item == items[1]
           p == placements[1]
       IN /\ \E c \in Range(Candidates(item)) :
                /\ IsValidAgainst(Room, door_restricted_zone, <<>>, <<>>, RectOf(item, c))
                /\ TouchingOf(item, c[1], c[2]) < TouchingOf(item, p.center, p.rotation)
          /\ \E c \in Range(Candidates(item)) :
                /\ IsValidAgainst(Room, door_restricted_zone, <<>>, <<>>, RectOf(item, c))
                /\ TouchingOf(item, c[1], c[2]) = TouchingOf(item, p.center, p.rotation)
                /\ NearestOf(item, c[1], c[2]) > NearestOf(item, p.center, p.rotation)

\* A rectangle is flush against a wall of the room: on the wall's room side
\* without crossing it, at distance 0, and within the wall's two ends.
IsHorizontal(wall) == wall.points[1][2] = wall.points[2][2]

FlushAgainst(rect, wall) ==
    /\ Distance(rect, wall) = 0
    /\ IF IsHorizontal(wall)
       THEN /\ MinX(wall) <= MinX(rect) /\ MaxX(rect) <= MaxX(wall)
            /\ IF MinY(wall) = MinY(Room)
               THEN MinY(rect) >= MinY(wall)
               ELSE MaxY(rect) <= MaxY(wall)
       ELSE /\ MinY(wall) <= MinY(rect) /\ MaxY(rect) <= MaxY(wall)
            /\ IF MinX(wall) = MinX(Room)
               THEN MinX(rect) >= MinX(wall)
               ELSE MaxX(rect) <= MaxX(wall)

\* C10, as claimed: for every wall of the room, horizontal or vertical and in
\* either winding order, every wall-adjacent candidate at rotation 0 or 90 is
\* a rectangle flush against that wall.
C10_WallCandidatesFlush ==
    pc = "solving" =>
        \A w \in DOMAIN walls : \A k \in DOMAIN items :
            \A c \in Range(_generate_wall_positions(walls[w], items[k])) :
                FlushAgainst(RectOf(items[k], c), walls[w])

\* The interiors of two axis-parallel rectangles have no point in common.
InteriorsDisjoint(a, b) ==
    \/ MaxX(a) <= MinX(b) \/ MaxX(b) <= MinX(a)
    \/ MaxY(a) <= MinY(b) \/ MaxY(b) <= MinY(a)

\* zone is attached to the right edge of rect: it shares that edge, spans it
\* whole, and extends outward by depth.
AttachedRight(zone, rect, depth) ==
    /\ MinX(zone) = MaxX(rect)
    /\ MinY(zone) = MinY(rect) /\ MaxY(zone) = MaxY(rect)
    /\ MaxX(zone) = MaxX(rect) + depth

\* The same for the top edge of rect.
AttachedTop(zone, rect, depth) ==
    /\ MinY(zone) = MaxY(rect)
    /\ MinX(zone) = MinX(rect) /\ MaxX(zone) = MaxX(rect)
    /\ MaxY(zone) = MaxY(rect) + depth

\* C11, as claimed: for a committed fridge of any length and width, the fridge
\* zone is attached to one edge of the fridge's occupied rectangle as built by
\* _create_rectangle for the same pose: the right edge at rotation 0, the top
\* edge at rotation 90; it spans that whole edge, extends outward by the
\* fridge's width, and its interior is disjoint from the fridge's rectangle.
C11_FridgeZoneAttached ==
    \A n \in DOMAIN placements :
        IsFridge(placements[n]) =>
            LET p == placements[n]
                rect == _create_rectangle(p.center, p.item.length, p.item.width, p.rotation)
                zone == _calculate_fridge_door_zone(p)
            IN /\ rect = placed_polygons[n]
               /\ \E k \in DOMAIN fridge_zones : fridge_zones[k] = zone
               /\ IF p.rotation = 0
                  THEN AttachedRight(zone, rect, p.item.width)
                  ELSE AttachedTop(zone, rect, p.item.width)
               /\ InteriorsDisjoint(zone, rect)

\* The point lies on the wall, between its two ends.
OnWall(point, wall) ==
    /\ MinX(wall) <= point[1] /\ point[1] <= MaxX(wall)
    /\ MinY(wall) <= point[2] /\ point[2] <= MaxY(wall)

\* The two points of the door are distinct and lie on one wall of the room.
DoorOnWall ==
    /\ Len(door) >= 2
    /\ door[1] # door[2]
    /\ \E w \in DOMAIN walls : OnWall(door[1], walls[w]) /\ OnWall(door[2], walls[w])

\* zone is a square of the given side whose corners are zone.points and
\* which has the segment p1-p2 as one of its sides.
SquareOnSegment(zone, p1, p2, side) ==
    /\ MaxX(zone) - MinX(zone) = side
    /\ MaxY(zone) - MinY(zone) = side
    /\ Range(zone.points) = {<<x, y>> : x \in {MinX(zone), MaxX(zone)},
                                       y \in {MinY(zone), MaxY(zone)}}
    /\ zone.points[1] = p1 /\ zone.points[2] = p2
    /\ Length(LineString(p1, p2)) = side

\* C12, as claimed: for an inward-swinging door whose two points lie on a wall
\* of the room, in either order of the two points, the door zone is a square
\* with side equal to the door width, with one side on the door segment, that
\* extends from the door into the room interior, never to the outside.
C12_InwardDoorZoneInside ==
    (pc \in {"solving", "done"} /\ is_open_inward /\ DoorOnWall) =>
        /\ door_restricted_zone.kind = "polygon"
        /\ SquareOnSegment(door_restricted_zone, door[1], door[2],
                           Length(LineString(door[1], door[2])))
        /\ Contains(boundary_polygon, door_restricted_zone)

====
